---- MODULE Spec2Model ----
(***************************************************************************)
(* Entitlement and content-delivery engine of the storefront bot           *)
(* (src/main.py): the ledger tables, the purchase decision, the payment    *)
(* settlement handler, the VIP subscription window and the operator's      *)
(* catalog commands.                                                       *)
(*                                                                         *)
(* Time is counted in whole days.  A text that the code splits on "_" is   *)
(* held as the sequence of its "_"-free parts, so that                     *)
(* "content_photo_set_1_7".split("_") is the sequence                      *)
(* <<"content","photo","set","1","7">>.                                    *)
(***************************************************************************)
EXTENDS Integers, Sequences, FiniteSets, TLC

\* ------------------------------------------------------------------ bounds
MaxDay == 1
MaxVipDay == 26
MaxPayments == 2
MaxSettle == 2
MaxRenewals == 2
MaxUserId == 9

\* user identities that talk to the bot
Users == {1}

\* telebot runs handlers on its pool of worker threads (two by default)
Workers == {"w1", "w2"}

\* durations the operator sets (owner_set_vip_duration accepts 1..365)
Durations == {1, 30}

\* values the operator types for prices, assets and descriptions
Prices == {10, 20}
Files == {"file_id"}
Descriptions == {"text"}

\* content_type: the individual pool and the subscription pool
ContentTypes == {"browse", "vip"}

photo_set_1 == <<"photo", "set", "1">>
video_preview == <<"video", "preview">>
pic == <<"pic">>
\* item names the users and the operator type
Names == {pic}
\* the names of the items init_database seeds
SeededNames == {photo_set_1, video_preview}

VARIABLES
    now,                \* datetime.datetime.now(), in days
    users,              \* table users: user_id -> [total_stars_spent]
    content_items,      \* table content_items: name -> row
    user_purchases,     \* table user_purchases: set of rows
    vip_subscriptions,  \* table vip_subscriptions: user_id -> row
    vip_duration_days,  \* vip_settings['vip_duration_days']
    invoices,           \* invoices sent with bot.send_invoice (equal ones held once)
    payments,           \* payments Telegram accepted, in order
    settled,            \* successful_payment notifications handled, per payment
    delivered,          \* content deliveries made by the settlement handler
    renewals,           \* days of the completed activate_vip_subscription calls, per user
    threads,            \* the worker threads' handlers in progress
    reply,              \* the last answer of a catalog, library, free-access or upload handler
    upload_sessions     \* upload_sessions[OWNER_ID], the operator's guided upload

vars == <<now, users, content_items, user_purchases, vip_subscriptions,
          vip_duration_days, invoices, payments, settled, delivered, renewals, threads,
          reply, upload_sessions>>

\* ----------------------------------------------------------------- helpers
Max(a, b) == IF a >= b THEN a ELSE b

\* INSERT OR REPLACE / UPDATE of the row with primary key k
Upsert(table, k, row) ==
    [x \in DOMAIN table \cup {k} |-> IF x = k THEN row ELSE table[x]]

\* DELETE of the row with primary key k
Remove(table, k) == [x \in DOMAIN table \ {k} |-> table[x]]

\* notifications handled so far, over all payments
RECURSIVE Handled(_)
Handled(counts) ==
    IF counts = <<>> THEN 0 ELSE Head(counts) + Handled(Tail(counts))

Count(bag, k) == IF k \in DOMAIN bag THEN bag[k] ELSE 0

\* str(user_id) and int(text); int raises ValueError on a non-number (-1)
IsNumber(s) == \E n \in 0..MaxUserId : ToString(n) = s
int(s) == IF IsNumber(s) THEN CHOOSE n \in 0..MaxUserId : ToString(n) = s ELSE -1

\* ------------------------------------------------------------------- Init
\* a worker thread with no handler in progress
NoRow == [found |-> FALSE, expiry_date |-> 0]
Idle == [pc |-> "idle", user_id |-> 0, duration_days |-> 0, t |-> 0, existing |-> NoRow,
         payment |-> 0]

\* nothing answered yet
NoReply == [kind |-> "none"]

\* the owner's Telegram identity, int(os.getenv('OWNER_ID', '0'))
OWNER_ID == 0

\* Python's None in a session's price and SQL NULL in the nullable column
\* price_stars
NullPrice == 0 - 1

\* OWNER_ID not in upload_sessions
NoSession == [type |-> "none", step |-> "none", name |-> <<>>, price |-> NullPrice,
              description |-> "None", file_path |-> "None", file_type |-> "None"]

sample_content ==
    [n \in {photo_set_1, video_preview} |->
        IF n = photo_set_1
        THEN [price_stars |-> 25, file_path |-> "https://example.com/photo1.jpg",
              description |-> "Exclusive photo set - Behind the scenes",
              content_type |-> "browse"]
        ELSE [price_stars |-> 50, file_path |-> "https://example.com/video1.mp4",
              description |-> "Special video content just for you",
              content_type |-> "browse"]]

vip_price_stars == 399

Init ==
    /\ now = 0
    /\ users = <<>>
    /\ content_items = sample_content
    /\ user_purchases = {}
    /\ vip_subscriptions = <<>>
    /\ vip_duration_days = 30
    /\ invoices = {}
    /\ payments = <<>>
    /\ settled = <<>>
    /\ delivered = <<>>
    /\ renewals = [u \in Users |-> <<>>]
    /\ threads = [w \in Workers |-> Idle]
    /\ reply = NoReply
    /\ upload_sessions = NoSession

\* ------------------------------------------------------- entitlement engine
\* add_or_update_user: a new identity gets a users row with nothing spent (the
\* interaction counter and last-seen time of an existing row carry no
\* entitlement and are left out)
add_or_update_user(tbl, u) ==
    IF u \in DOMAIN tbl THEN tbl ELSE Upsert(tbl, u, [total_stars_spent |-> 0])

\* an ownership check that finds no row
Owns_never(u, name) == FALSE

\* check_user_owns_content
Owns(u, name) ==
    \E r \in user_purchases : r.user_id = u /\ r.content_name = name

\* SELECT ... FROM vip_subscriptions WHERE user_id = ? AND is_active = 1
SelectActive(subs, u) ==
    IF u \in DOMAIN subs /\ subs[u].is_active = 1
    THEN [found |-> TRUE, expiry_date |-> subs[u].expiry_date]
    ELSE NoRow

\* check_vip_status: what it reports from the row it read at time t
StatusOf(existing, t) ==
    IF existing.found /\ existing.expiry_date > t
    THEN [is_vip |-> TRUE, days_left |-> existing.expiry_date - t, expired |-> FALSE]
    ELSE [is_vip |-> FALSE, days_left |-> 0, expired |-> existing.found]

\* deactivate_expired_vip: UPDATE ... SET is_active = 0 WHERE user_id = ?
\* (deactivate_by_delete removes the row, reactivate_expired_vip moves its
\* expiry instead of clearing the flag)
deactivate_by_delete(subs, u) == Remove(subs, u)
reactivate_expired_vip(subs, u) ==
    IF u \in DOMAIN subs THEN [subs EXCEPT ![u].expiry_date = @ + 1] ELSE subs
deactivate_expired_vip(subs, u) ==
    IF u \in DOMAIN subs THEN [subs EXCEPT ![u].is_active = 0] ELSE subs

\* check_vip_status: the table after the call (lazy deactivation)
check_vip_status(subs, u, t) ==
    IF StatusOf(SelectActive(subs, u), t).expired
    THEN deactivate_expired_vip(subs, u)
    ELSE subs

\* "If still active, extend from expiry date, otherwise from now"
\* (extend_from_now and extend_from_expiry each ignore one of the two dates)
extend_from_now(current_expiry, t) == t
extend_from_expiry(current_expiry, t) == current_expiry
extend_from(current_expiry, t) == Max(current_expiry, t)

\* the row written for a user without an active row (INSERT OR REPLACE)
new_subscription_unflagged(t, D) ==
    [start_date |-> t, expiry_date |-> t + D, is_active |-> 0, total_payments |-> 1]
new_subscription(t, D) ==
    [start_date |-> t, expiry_date |-> t + D, is_active |-> 1, total_payments |-> 1]

\* activate_vip_subscription, its write: the UPDATE when the SELECT found an
\* active row, the INSERT OR REPLACE otherwise
WriteRenewal_replace(subs, u, existing, D, t) ==
    Upsert(subs, u, new_subscription(t, D))
WriteRenewal(subs, u, existing, D, t) ==
    IF existing.found
    THEN IF u \in DOMAIN subs
         THEN [subs EXCEPT ![u].expiry_date = extend_from(existing.expiry_date, t) + D,
                           ![u].is_active = 1,
                           ![u].total_payments = @ + 1]
         ELSE subs
    ELSE Upsert(subs, u, new_subscription(t, D))

\* activate_vip_subscription run without interruption
activate_vip_subscription(subs, u, D, t) ==
    WriteRenewal(subs, u, SelectActive(subs, u), D, t)

\* ------------------------------------------------------------ payloads
\* f"content_{name}_{user_id}" and f"vip_subscription_{user_id}", as split("_")
content_payload(name, u) == <<"content">> \o name \o <<ToString(u)>>
vip_payload(u) == <<"vip", "subscription", ToString(u)>>

IsVipPayload(parts) ==
    Len(parts) >= 2 /\ parts[1] = "vip" /\ parts[2] = "subscription"
IsContentPayload(parts) ==
    ~IsVipPayload(parts) /\ Len(parts) >= 3 /\ parts[1] = "content"

\* content_name = payload_parts[1]; user_id = int(payload_parts[2])
payload_content_name(parts) == <<parts[2]>>
payload_user_id(parts) == int(parts[3])
\* int(...) raises ValueError (or the index is out of range) and the handler ends
PayloadRaises(parts) == Len(parts) < 3 \/ ~IsNumber(parts[3])

\* --------------------------------------------------------- purchase request
\* purchase_item: the outcome for (user, item name)
\* (ResolveOwnedFirst looks at the purchases before the pool)
ResolveOwnedFirst(u, name) ==
    IF Owns(u, name) /\ name \in DOMAIN content_items THEN "AlreadyOwned"
    ELSE IF name \in DOMAIN content_items /\ content_items[name].content_type = "browse"
         THEN "Proceed"
    ELSE IF name \in DOMAIN content_items /\ content_items[name].content_type = "vip"
         THEN "NotIndividual"
         ELSE "NotFound"
ResolvePurchaseRequest(u, name) ==
    IF name \in DOMAIN content_items /\ content_items[name].content_type = "browse"
    THEN IF Owns(u, name) THEN "AlreadyOwned" ELSE "Proceed"
    ELSE IF name \in DOMAIN content_items /\ content_items[name].content_type = "vip"
         THEN "NotIndividual"
         ELSE "NotFound"

\* purchase_item: the invoices after the call (bot.send_invoice on Proceed only)
\* (purchase_item_unchecked skips check_user_owns_content)
purchase_item_unchecked(u, name) ==
    IF name \in DOMAIN content_items /\ content_items[name].content_type = "browse"
    THEN invoices \cup {[payload |-> content_payload(name, u),
                         amount |-> content_items[name].price_stars]}
    ELSE invoices
purchase_item(u, name) ==
    IF ResolvePurchaseRequest(u, name) = "Proceed"
    THEN invoices \cup {[payload |-> content_payload(name, u),
                         amount |-> content_items[name].price_stars]}
    ELSE invoices

\* purchase_vip_subscription
purchase_vip_subscription(u) ==
    invoices \cup {[payload |-> vip_payload(u), amount |-> vip_price_stars]}

\* ------------------------------------------------------- payment settlement
\* INSERT OR IGNORE INTO user_purchases: the UNIQUE (user_id, content_name)
\* conflict leaves the table as it is
\* (insert_always adds a second row, insert_or_replace writes the new values
\* over the row of the pair)
insert_or_replace(rows, u, name, t, price) ==
    {r \in rows : ~(r.user_id = u /\ r.content_name = name)}
    \cup {[id |-> Cardinality(rows) + 1, user_id |-> u, content_name |-> name,
           purchase_date |-> t, price_paid |-> price]}
insert_always(rows, u, name, t, price) ==
    rows \cup {[id |-> Cardinality(rows) + 1, user_id |-> u, content_name |-> name,
                purchase_date |-> t, price_paid |-> price]}
insert_or_ignore(rows, u, name, t, price) ==
    IF \E r \in rows : r.user_id = u /\ r.content_name = name
    THEN rows
    ELSE rows \cup {[id |-> Cardinality(rows) + 1, user_id |-> u, content_name |-> name,
                     purchase_date |-> t, price_paid |-> price]}

\* PRAGMA foreign_keys = ON (get_db_connection): a row that would be inserted
\* needs its user in users and its item in content_items, else the statement
\* raises and the uncommitted transaction is lost
ForeignKeyFails(u, name) ==
    /\ ~(\E r \in user_purchases : r.user_id = u /\ r.content_name = name)
    /\ (u \notin DOMAIN users \/ name \notin DOMAIN content_items)

\* UPDATE users SET total_stars_spent = total_stars_spent + ? WHERE user_id = ?
add_spent(tbl, u, amount) ==
    IF u \in DOMAIN tbl THEN [tbl EXCEPT ![u].total_stars_spent = @ + amount] ELSE tbl

\* successful_payment_handler, VIP branch
SettleVip(parts, amount) ==
    LET user_id == payload_user_id(parts) IN
    /\ Len(renewals[user_id]) < MaxRenewals
    /\ users' = add_spent(users, user_id, amount)
    /\ vip_subscriptions' =
         activate_vip_subscription(vip_subscriptions, user_id, vip_duration_days, now)
    /\ renewals' = [renewals EXCEPT ![user_id] = Append(@, now)]
    /\ UNCHANGED <<user_purchases, delivered>>

\* successful_payment_handler, content branch
SettleContent(parts, amount) ==
    LET content_name == payload_content_name(parts)
        user_id == payload_user_id(parts)
    IN  IF ForeignKeyFails(user_id, content_name)
        THEN UNCHANGED <<users, user_purchases, delivered, vip_subscriptions, renewals>>
        ELSE /\ users' = add_spent(users, user_id, amount)
             /\ user_purchases' =
                  insert_or_ignore(user_purchases, user_id, content_name, now, amount)
             /\ delivered' =
                  IF content_name \in DOMAIN content_items
                  THEN Upsert(delivered, <<user_id, content_name>>,
                              Count(delivered, <<user_id, content_name>>) + 1)
                  ELSE delivered
             /\ UNCHANGED <<vip_subscriptions, renewals>>

\* successful_payment_handler on a notification of payment p
successful_payment_handler(p) ==
    LET parts == payments[p].payload
        amount == payments[p].amount
    IN  /\ Handled(settled) < MaxSettle
        /\ settled' = [settled EXCEPT ![p] = @ + 1]
        /\ IF (IsVipPayload(parts) \/ IsContentPayload(parts)) /\ PayloadRaises(parts)
           THEN UNCHANGED <<users, user_purchases, delivered, vip_subscriptions, renewals>>
           ELSE IF IsVipPayload(parts) THEN SettleVip(parts, amount)
           ELSE IF IsContentPayload(parts) THEN SettleContent(parts, amount)
           ELSE UNCHANGED <<users, user_purchases, delivered, vip_subscriptions, renewals>>
        /\ UNCHANGED <<now, content_items, vip_duration_days, invoices, payments, threads, reply, upload_sessions>>

\* pre_checkout_handler answers ok=True to every query: the invoice is paid
pre_checkout_handler(inv) ==
    /\ Len(payments) < MaxPayments
    /\ payments' = Append(payments, inv)
    /\ settled' = Append(settled, 0)
    /\ UNCHANGED <<now, users, content_items, user_purchases, vip_subscriptions,
                   vip_duration_days, invoices, delivered, renewals, threads, reply, upload_sessions>>

\* ------------------------------------------------------------ user events
\* /start: add_or_update_user, then check_vip_status
start_command(u) ==
    /\ users' = add_or_update_user(users, u)
    /\ vip_subscriptions' = check_vip_status(vip_subscriptions, u, now)
    /\ UNCHANGED <<now, content_items, user_purchases, vip_duration_days, invoices,
                   payments, settled, delivered, renewals, threads, reply, upload_sessions>>

\* /buy <name>: add_or_update_user, then purchase_item
buy_command(u, name) ==
    /\ users' = add_or_update_user(users, u)
    /\ invoices' = purchase_item(u, name)
    /\ UNCHANGED <<now, content_items, user_purchases, vip_subscriptions,
                   vip_duration_days, payments, settled, delivered, renewals, threads, reply, upload_sessions>>

\* the "buy_<name>" button: purchase_item
buy_callback(u, name) ==
    /\ invoices' = purchase_item(u, name)
    /\ UNCHANGED <<now, users, content_items, user_purchases, vip_subscriptions,
                   vip_duration_days, payments, settled, delivered, renewals, threads, reply, upload_sessions>>

\* the "buy_vip" button
buy_vip_callback(u) ==
    /\ invoices' = purchase_vip_subscription(u)
    /\ UNCHANGED <<now, users, content_items, user_purchases, vip_subscriptions,
                   vip_duration_days, payments, settled, delivered, renewals, threads, reply, upload_sessions>>

\* the "vip_access" button: show_vip_access calls check_vip_status
vip_access_callback(u) ==
    /\ vip_subscriptions' = check_vip_status(vip_subscriptions, u, now)
    /\ UNCHANGED <<now, users, content_items, user_purchases, vip_duration_days,
                   invoices, payments, settled, delivered, renewals, threads, reply, upload_sessions>>

\* ------------------------------------------------------- operator commands
\* /owner_add_content: INSERT OR REPLACE, content_type left to its default
owner_add_content(name, price, file, description) ==
    /\ content_items' = Upsert(content_items, name,
           [price_stars |-> price, file_path |-> file, description |-> description,
            content_type |-> "browse"])
    /\ UNCHANGED <<now, users, user_purchases, vip_subscriptions, vip_duration_days,
                   invoices, payments, settled, delivered, renewals, threads, reply, upload_sessions>>

\* /owner_delete_content and the confirm_delete buttons: DELETE FROM
\* content_items WHERE name = ? (a connection without the foreign_keys pragma)
delete_content_cascade(name) ==
    /\ content_items' = Remove(content_items, name)
    /\ user_purchases' = {r \in user_purchases : r.content_name # name}
    /\ UNCHANGED <<now, users, vip_subscriptions, vip_duration_days,
                   invoices, payments, settled, delivered, renewals, threads, reply, upload_sessions>>
owner_delete_content(name) ==
    /\ content_items' = Remove(content_items, name)
    /\ UNCHANGED <<now, users, user_purchases, vip_subscriptions, vip_duration_days,
                   invoices, payments, settled, delivered, renewals, threads, reply, upload_sessions>>

\* save_uploaded_content, the commit of a guided upload with the values the
\* session gathered: a plain INSERT, which fails and changes nothing when the
\* name is taken; a VIP upload carries price 0
save_uploaded_content(name, price, file, description, content_type) ==
    /\ content_items' =
         IF name \in DOMAIN content_items THEN content_items
         ELSE Upsert(content_items, name,
                     [price_stars |-> IF content_type = "vip" THEN 0 ELSE price,
                      file_path |-> file, description |-> description,
                      content_type |-> content_type])
    /\ UNCHANGED <<now, users, user_purchases, vip_subscriptions, vip_duration_days,
                   invoices, payments, settled, delivered, renewals, threads, reply, upload_sessions>>

\* /owner_edit_price (0..2500), /owner_edit_description, /owner_edit_file_path:
\* UPDATE content_items SET <column> = ? WHERE name = ?
owner_edit_price(name, price) ==
    /\ content_items' = IF name \in DOMAIN content_items /\ price >= 0 /\ price <= 2500
                        THEN [content_items EXCEPT ![name].price_stars = price]
                        ELSE content_items
    /\ UNCHANGED <<now, users, user_purchases, vip_subscriptions, vip_duration_days,
                   invoices, payments, settled, delivered, renewals, threads, reply, upload_sessions>>

owner_edit_description(name, description) ==
    /\ content_items' = IF name \in DOMAIN content_items
                        THEN [content_items EXCEPT ![name].description = description]
                        ELSE content_items
    /\ UNCHANGED <<now, users, user_purchases, vip_subscriptions, vip_duration_days,
                   invoices, payments, settled, delivered, renewals, threads, reply, upload_sessions>>

owner_edit_file_path(name, file) ==
    /\ content_items' = IF name \in DOMAIN content_items
                        THEN [content_items EXCEPT ![name].file_path = file]
                        ELSE content_items
    /\ UNCHANGED <<now, users, user_purchases, vip_subscriptions, vip_duration_days,
                   invoices, payments, settled, delivered, renewals, threads, reply, upload_sessions>>

\* /owner_set_vip_duration: 1..365 days
owner_set_vip_duration(days) ==
    /\ vip_duration_days' = IF days < 1 \/ days > 365 THEN vip_duration_days ELSE days
    /\ UNCHANGED <<now, users, content_items, user_purchases, vip_subscriptions,
                   invoices, payments, settled, delivered, renewals, threads, reply, upload_sessions>>

\* ------------------------------------------------------------------- time
Tick(last) ==
    /\ now < last
    /\ now' = now + 1
    /\ UNCHANGED <<users, content_items, user_purchases, vip_subscriptions,
                   vip_duration_days, invoices, payments, settled, delivered, renewals, threads, reply, upload_sessions>>

\* --------------------------------------------------------- specifications
\* the storefront with every handler run to its end before the next starts
Next ==
    \/ Tick(MaxDay)
    \/ \E u \in Users : start_command(u)
    \/ \E u \in Users, name \in Names : buy_command(u, name)
    \/ \E u \in Users, name \in Names : buy_callback(u, name)
    \/ \E u \in Users : buy_vip_callback(u)
    \/ \E u \in Users : vip_access_callback(u)
    \/ \E inv \in invoices : pre_checkout_handler(inv)
    \/ \E p \in DOMAIN payments : successful_payment_handler(p)
    \/ \E name \in Names, price \in Prices, file \in Files, d \in Descriptions :
          owner_add_content(name, price, file, d)
    \/ \E name \in Names, price \in Prices, file \in Files, d \in Descriptions,
          content_type \in ContentTypes :
          save_uploaded_content(name, price, file, d, content_type)
    \/ \E name \in Names : owner_delete_content(name)
    \/ \E name \in Names, price \in Prices : owner_edit_price(name, price)
    \/ \E name \in Names, d \in Descriptions : owner_edit_description(name, d)
    \/ \E name \in Names, file \in Files : owner_edit_file_path(name, file)

Spec == Init /\ [][Next]_vars

\* the seeded catalog, with no operator at work: users ask for the seeded
\* items, pay and are notified
NextSeeded ==
    \/ Tick(MaxDay)
    \/ \E u \in Users : start_command(u)
    \/ \E u \in Users, name \in SeededNames : buy_command(u, name)
    \/ \E u \in Users, name \in SeededNames : buy_callback(u, name)
    \/ \E inv \in invoices : pre_checkout_handler(inv)
    \/ \E p \in DOMAIN payments : successful_payment_handler(p)

SpecSeeded == Init /\ [][NextSeeded]_vars

\* the subscription window alone: notifications of subscription payments,
\* status checks, the operator's duration setting and the passing of days
vip_payment_notification(u) ==
    /\ SettleVip(vip_payload(u), vip_price_stars)
    /\ UNCHANGED <<now, content_items, vip_duration_days, invoices, payments, settled,
                   threads, reply, upload_sessions>>

NextVip ==
    \/ Tick(MaxVipDay)
    \/ \E u \in Users : vip_payment_notification(u)
    \/ \E u \in Users : vip_access_callback(u)
    \/ \E days \in Durations : owner_set_vip_duration(days)

SpecVip == Init /\ [][NextVip]_vars

\* ------------------------------------------------------- worker threads
\* Two handlers run at once, each on its own connection; a step is one
\* statement (a SELECT, or a write with its commit).
\* a handler whose statement raised inside a transaction leaves without
\* conn.close(): the connection keeps the write lock of the database until
\* it is collected, and a write on another connection raises
\* sqlite3.OperationalError ("database is locked") once its timeout is over
DatabaseLocked(w) == \E v \in Workers \ {w} : threads[v].pc = "raised"

RenewalsBegun(u) ==
    Len(renewals[u]) + Cardinality({w \in Workers : threads[w].pc \in
                                 {"settings", "select", "write"}
                               /\ threads[w].user_id = u})

\* successful_payment_handler up to the call of activate_vip_subscription:
\* the payload is parsed and the users row updated and committed
w_successful_payment(w, u) ==
    /\ threads[w].pc = "idle"
    /\ ~DatabaseLocked(w)
    /\ RenewalsBegun(u) < MaxRenewals
    /\ users' = add_spent(users, payload_user_id(vip_payload(u)), vip_price_stars)
    /\ threads' = [threads EXCEPT ![w] = [Idle EXCEPT !.pc = "settings",
                       !.user_id = payload_user_id(vip_payload(u))]]
    /\ UNCHANGED <<now, content_items, user_purchases, vip_subscriptions,
                   vip_duration_days, invoices, payments, settled, delivered, renewals, reply, upload_sessions>>

\* activate_vip_subscription: get_vip_settings and datetime.now()
w_get_vip_settings(w) ==
    /\ threads[w].pc = "settings"
    /\ threads' = [threads EXCEPT ![w].pc = "select",
                                  ![w].duration_days = vip_duration_days,
                                  ![w].t = now]
    /\ UNCHANGED <<now, users, content_items, user_purchases, vip_subscriptions,
                   vip_duration_days, invoices, payments, settled, delivered, renewals, reply, upload_sessions>>

\* activate_vip_subscription: the SELECT of the active row
w_select_existing(w) ==
    /\ threads[w].pc = "select"
    /\ threads' = [threads EXCEPT ![w].pc = "write",
                      ![w].existing = SelectActive(vip_subscriptions, threads[w].user_id)]
    /\ UNCHANGED <<now, users, content_items, user_purchases, vip_subscriptions,
                   vip_duration_days, invoices, payments, settled, delivered, renewals, reply, upload_sessions>>

\* activate_vip_subscription: the UPDATE or INSERT OR REPLACE, and the commit
w_write_subscription(w) ==
    /\ threads[w].pc = "write"
    /\ ~DatabaseLocked(w)
    /\ vip_subscriptions' = WriteRenewal(vip_subscriptions, threads[w].user_id,
                                threads[w].existing, threads[w].duration_days,
                                threads[w].t)
    /\ renewals' = [renewals EXCEPT ![threads[w].user_id] = Append(@, now)]
    /\ threads' = [threads EXCEPT ![w].pc = "confirm"]
    /\ UNCHANGED <<now, users, content_items, user_purchases, vip_duration_days,
                   invoices, payments, settled, delivered, reply, upload_sessions>>

\* successful_payment_handler, VIP branch, after activate_vip_subscription
\* returned: the "VIP SUBSCRIPTION ACTIVATED" message
w_send_confirmation(w) ==
    /\ threads[w].pc = "confirm"
    /\ reply' = [kind |-> "vip_activated", user |-> threads[w].user_id,
                 duration_days |-> threads[w].duration_days]
    /\ threads' = [threads EXCEPT ![w] = Idle]
    /\ UNCHANGED <<now, users, content_items, user_purchases, vip_subscriptions,
                   vip_duration_days, invoices, payments, settled, delivered, renewals, upload_sessions>>

\* check_vip_status: the SELECT of the active row
w_check_vip_status(w, u) ==
    /\ threads[w].pc = "idle"
    /\ threads' = [threads EXCEPT ![w] = [Idle EXCEPT !.pc = "status", !.user_id = u,
                       !.existing = SelectActive(vip_subscriptions, u)]]
    /\ UNCHANGED <<now, users, content_items, user_purchases, vip_subscriptions,
                   vip_duration_days, invoices, payments, settled, delivered, renewals, reply, upload_sessions>>

\* check_vip_status: the comparison with now, and deactivate_expired_vip
w_deactivate_expired(w) ==
    /\ threads[w].pc = "status"
    /\ ~DatabaseLocked(w)
    /\ vip_subscriptions' =
         IF StatusOf(threads[w].existing, now).expired
         THEN deactivate_expired_vip(vip_subscriptions, threads[w].user_id)
         ELSE vip_subscriptions
    /\ threads' = [threads EXCEPT ![w] = Idle]
    /\ UNCHANGED <<now, users, content_items, user_purchases, vip_duration_days,
                   invoices, payments, settled, delivered, renewals, reply, upload_sessions>>

NextThreads ==
    \/ Tick(MaxDay)
    \/ \E u \in Users : start_command(u)
    \/ \E w \in Workers, u \in Users : w_successful_payment(w, u)
    \/ \E w \in Workers : w_get_vip_settings(w)
    \/ \E w \in Workers : w_select_existing(w)
    \/ \E w \in Workers : w_write_subscription(w)
    \/ \E w \in Workers : w_send_confirmation(w)
    \/ \E w \in Workers, u \in Users : w_check_vip_status(w, u)
    \/ \E w \in Workers : w_deactivate_expired(w)

SpecThreads == Init /\ [][NextThreads]_vars

\* the worker threads with the owner's /owner_set_vip_duration beside them, so
\* that a subscription period can end within the modelled days
NextLapse ==
    \/ Tick(MaxDay)
    \/ \E days \in Durations : owner_set_vip_duration(days)
    \/ \E w \in Workers, u \in Users : w_successful_payment(w, u)
    \/ \E w \in Workers : w_get_vip_settings(w)
    \/ \E w \in Workers : w_select_existing(w)
    \/ \E w \in Workers : w_write_subscription(w)
    \/ \E w \in Workers : w_send_confirmation(w)
    \/ \E w \in Workers, u \in Users : w_check_vip_status(w, u)
    \/ \E w \in Workers : w_deactivate_expired(w)

SpecLapse == Init /\ [][NextLapse]_vars

\* successful_payment_handler, content branch, on a notification of payment
\* p: the payload is split and its user id converted (a ValueError ends the
\* handler)
w_content_payment(w, p) ==
    /\ threads[w].pc = "idle"
    /\ IsContentPayload(payments[p].payload)
    /\ Handled(settled) < MaxSettle
    /\ settled' = [settled EXCEPT ![p] = @ + 1]
    /\ threads' = [threads EXCEPT ![w] =
                      IF PayloadRaises(payments[p].payload) THEN Idle
                      ELSE [Idle EXCEPT !.pc = "ledger", !.payment = p,
                               !.user_id = payload_user_id(payments[p].payload)]]
    /\ UNCHANGED <<now, users, content_items, user_purchases, vip_subscriptions,
                   vip_duration_days, invoices, payments, delivered, renewals, reply, upload_sessions>>

\* where the handler goes after its transaction: a statement that raised
\* ends it with the connection left open, the commit is followed by the
\* delivery when the SELECT on content_items found the item
\* (after_ledger_write_caught goes on after a statement that raised)
after_ledger_write_caught(raised, content_found) ==
    IF content_found THEN "deliver" ELSE "idle"
after_ledger_write(raised, content_found) ==
    IF raised THEN "raised" ELSE IF content_found THEN "deliver" ELSE "idle"

\* the transaction on get_db_connection(): UPDATE users, INSERT OR IGNORE
\* INTO user_purchases, SELECT ... FROM content_items, conn.commit(); when
\* the INSERT raises nothing is committed
w_write_purchase(w) ==
    LET p == threads[w].payment
        user_id == threads[w].user_id
        content_name == payload_content_name(payments[p].payload)
        raised == ForeignKeyFails(user_id, content_name)
    IN  /\ threads[w].pc = "ledger"
        /\ ~DatabaseLocked(w)
        /\ users' = IF raised THEN users ELSE add_spent(users, user_id, payments[p].amount)
        /\ user_purchases' =
             IF raised THEN user_purchases
             ELSE insert_or_ignore(user_purchases, user_id, content_name, now,
                                   payments[p].amount)
        /\ threads' = [threads EXCEPT ![w] =
                          LET next == after_ledger_write(raised,
                                          content_name \in DOMAIN content_items)
                          IN  IF next = "deliver" THEN [@ EXCEPT !.pc = "deliver"]
                              ELSE [Idle EXCEPT !.pc = next]]
        /\ UNCHANGED <<now, content_items, vip_subscriptions, vip_duration_days,
                       invoices, payments, settled, delivered, renewals, reply, upload_sessions>>

\* "if content:" the thank-you message and the file
w_deliver_content(w) ==
    LET key == <<threads[w].user_id,
                 payload_content_name(payments[threads[w].payment].payload)>>
    IN  /\ threads[w].pc = "deliver"
        /\ delivered' = Upsert(delivered, key, Count(delivered, key) + 1)
        /\ threads' = [threads EXCEPT ![w] = Idle]
        /\ UNCHANGED <<now, users, content_items, user_purchases, vip_subscriptions,
                       vip_duration_days, invoices, payments, settled, renewals, reply, upload_sessions>>

\* the connection of a handler that raised is collected: its transaction is
\* rolled back and the lock released
w_connection_closed(w) ==
    /\ threads[w].pc = "raised"
    /\ threads' = [threads EXCEPT ![w] = Idle]
    /\ UNCHANGED <<now, users, content_items, user_purchases, vip_subscriptions,
                   vip_duration_days, invoices, payments, settled, delivered, renewals, reply, upload_sessions>>

\* a handler about to write (the content transaction, or the UPDATE / INSERT
\* OR REPLACE of activate_vip_subscription) while the database is locked:
\* the statement raises, no transaction was begun and the handler ends
w_database_locked(w) ==
    /\ threads[w].pc \in {"ledger", "write"}
    /\ DatabaseLocked(w)
    /\ threads' = [threads EXCEPT ![w] = Idle]
    /\ UNCHANGED <<now, users, content_items, user_purchases, vip_subscriptions,
                   vip_duration_days, invoices, payments, settled, delivered, renewals, reply, upload_sessions>>

\* no connection holds the write lock: the handlers that are followed as one
\* step can write
Unlocked == \A w \in Workers : threads[w].pc # "raised"

\* the price the operator gives the item while settlements are followed
\* statement by statement
SettlePrices == {10}

\* settlement statement by statement on the two worker threads, while the
\* operator adds and deletes items and users ask for invoices and pay
NextSettle ==
    \/ \E name \in Names, price \in SettlePrices, file \in Files, d \in Descriptions :
          Unlocked /\ owner_add_content(name, price, file, d)
    \/ \E name \in Names : Unlocked /\ owner_delete_content(name)
    \/ \E u \in Users, name \in Names : Unlocked /\ buy_command(u, name)
    \/ \E u \in Users, name \in Names : buy_callback(u, name)
    \/ \E inv \in invoices : pre_checkout_handler(inv)
    \/ \E w \in Workers, p \in DOMAIN payments : w_content_payment(w, p)
    \/ \E w \in Workers : w_write_purchase(w)
    \/ \E w \in Workers : w_deliver_content(w)
    \/ \E w \in Workers : w_connection_closed(w)
    \/ \E w \in Workers : w_database_locked(w)
    \/ \E w \in Workers, u \in Users : w_successful_payment(w, u)
    \/ \E w \in Workers : w_get_vip_settings(w)
    \/ \E w \in Workers : w_select_existing(w)
    \/ \E w \in Workers : w_write_subscription(w)
    \/ \E w \in Workers : w_send_confirmation(w)

SpecSettle == Init /\ [][NextSettle]_vars

\* --------------------------------------------------- subscription library
\* SELECT ... FROM content_items WHERE content_type = ?
ItemsOfType(content_type) ==
    {name \in DOMAIN content_items : content_items[name].content_type = content_type}

\* show_vip_catalog: what it sends to a user whose status check reported
\* status, vip_items being the rows selected (the upgrade prompt, or the
\* library, which is the "no exclusive VIP content available yet" message
\* when no row was selected); show_vip_catalog_open leaves the membership
\* test out
show_vip_catalog_open(u, status, vip_items) ==
    [kind |-> "vip_catalog", user |-> u, items |-> vip_items]
show_vip_catalog(u, status, vip_items) ==
    IF ~status.is_vip
    THEN [kind |-> "vip_required", user |-> u]
    ELSE [kind |-> "vip_catalog", user |-> u, items |-> vip_items]

\* deliver_vip_content: what it sends; the item is looked up with
\* WHERE name = ? AND content_type = 'vip' (deliver_vip_content_any_type
\* looks it up by name alone)
deliver_vip_content_any_type(u, status, name) ==
    IF ~status.is_vip
    THEN [kind |-> "vip_get_denied", user |-> u, name |-> name]
    ELSE IF name \in DOMAIN content_items
         THEN [kind |-> "vip_content", user |-> u, name |-> name,
               file_path |-> content_items[name].file_path]
         ELSE [kind |-> "vip_not_found", user |-> u, name |-> name]
deliver_vip_content(u, status, name) ==
    IF ~status.is_vip
    THEN [kind |-> "vip_get_denied", user |-> u, name |-> name]
    ELSE IF name \in ItemsOfType("vip")
         THEN [kind |-> "vip_content", user |-> u, name |-> name,
               file_path |-> content_items[name].file_path]
         ELSE [kind |-> "vip_not_found", user |-> u, name |-> name]

\* the "vip_content_catalog" button
vip_content_catalog_callback(u) ==
    /\ vip_subscriptions' = check_vip_status(vip_subscriptions, u, now)
    /\ reply' = show_vip_catalog(u, StatusOf(SelectActive(vip_subscriptions, u), now),
                                 ItemsOfType("vip"))
    /\ UNCHANGED <<now, users, content_items, user_purchases, vip_duration_days,
                   invoices, payments, settled, delivered, renewals, threads, upload_sessions>>

\* a "vip_get_<name>" button
vip_get_callback(u, name) ==
    /\ vip_subscriptions' = check_vip_status(vip_subscriptions, u, now)
    /\ reply' = deliver_vip_content(u, StatusOf(SelectActive(vip_subscriptions, u), now),
                                    name)
    /\ UNCHANGED <<now, users, content_items, user_purchases, vip_duration_days,
                   invoices, payments, settled, delivered, renewals, threads, upload_sessions>>

\* the subscription library: the operator fills the two pools and sets the
\* duration, users pay for the subscription, open the library and ask for
\* its items
NextLibrary ==
    \/ Tick(MaxDay)
    \/ \E days \in Durations : owner_set_vip_duration(days)
    \/ \E u \in Users : vip_payment_notification(u)
    \/ \E name \in Names, price \in Prices, file \in Files, d \in Descriptions :
          owner_add_content(name, price, file, d)
    \/ \E name \in Names, price \in Prices, file \in Files, d \in Descriptions,
          content_type \in ContentTypes :
          save_uploaded_content(name, price, file, d, content_type)
    \/ \E name \in Names : owner_delete_content(name)
    \/ \E u \in Users : vip_content_catalog_callback(u)
    \/ \E u \in Users, name \in Names : vip_get_callback(u, name)

SpecLibrary == Init /\ [][NextLibrary]_vars

\* ------------------------------------------------------ purchasable catalog
\* the chats a user writes in: the private chat, whose id is the user's id,
\* and a group the bot was added to (group ids are negative)
GroupChat == 0 - 100
ChatsOf(u) == {u, GroupChat}

\* show_content_catalog(chat_id, user_id): the rows with content_type =
\* 'browse', each with the "access_" button when check_user_owns_content
\* holds for user_id and the "buy_" button otherwise (no row selected: the
\* "No browse content available" message)
show_content_catalog(chat, user_id) ==
    [kind |-> "catalog", chat |-> chat,
     offers |-> [name \in ItemsOfType("browse") |->
                    IF Owns(user_id, name) THEN "access" ELSE "buy"]]

\* /buy with no item: add_or_update_user, then show_content_catalog called
\* with the chat id alone ("if user_id is None: user_id = chat_id")
buy_command_catalog(chat, u) ==
    /\ users' = add_or_update_user(users, u)
    /\ reply' = show_content_catalog(chat, chat)
    /\ UNCHANGED <<now, content_items, user_purchases, vip_subscriptions,
                   vip_duration_days, invoices, payments, settled, delivered, renewals,
                   threads, upload_sessions>>

\* the "browse_content" button: show_content_catalog with the sender's id
browse_content_callback(chat, u) ==
    /\ reply' = show_content_catalog(chat, u)
    /\ UNCHANGED <<now, users, content_items, user_purchases, vip_subscriptions,
                   vip_duration_days, invoices, payments, settled, delivered, renewals,
                   threads, upload_sessions>>

\* the "buy_premium" button: show_content_catalog with the chat id alone
buy_premium_callback(chat, u) ==
    /\ reply' = show_content_catalog(chat, chat)
    /\ UNCHANGED <<now, users, content_items, user_purchases, vip_subscriptions,
                   vip_duration_days, invoices, payments, settled, delivered, renewals,
                   threads, upload_sessions>>

\* the two listings at work: the operator fills the pools, users buy items
\* and the subscription, and open the catalog and the library
NextCatalog ==
    \/ \E name \in Names, price \in Prices, file \in Files, d \in Descriptions :
          owner_add_content(name, price, file, d)
    \/ \E name \in Names, price \in Prices, file \in Files, d \in Descriptions,
          content_type \in ContentTypes :
          save_uploaded_content(name, price, file, d, content_type)
    \/ \E name \in Names : owner_delete_content(name)
    \/ \E u \in Users, name \in Names : buy_command(u, name)
    \/ \E inv \in invoices : pre_checkout_handler(inv)
    \/ \E p \in DOMAIN payments : successful_payment_handler(p)
    \/ \E u \in Users : vip_payment_notification(u)
    \/ \E u \in Users : \E chat \in ChatsOf(u) : buy_command_catalog(chat, u)
    \/ \E u \in Users : \E chat \in ChatsOf(u) : browse_content_callback(chat, u)
    \/ \E u \in Users : \E chat \in ChatsOf(u) : buy_premium_callback(chat, u)
    \/ \E u \in Users : vip_content_catalog_callback(u)

SpecCatalog == Init /\ [][NextCatalog]_vars

\* ------------------------------------------------------------- the ledger
\* every kind of operation next to the settlements: purchase requests,
\* listings, deliveries, renewals, status checks, the operator's add, edit
\* and delete
NextLedger ==
    \/ \E u \in Users, name \in Names : buy_command(u, name)
    \/ \E inv \in invoices : pre_checkout_handler(inv)
    \/ \E p \in DOMAIN payments : successful_payment_handler(p)
    \/ \E u \in Users : vip_payment_notification(u)
    \/ \E u \in Users : vip_access_callback(u)
    \/ \E u \in Users : \E chat \in ChatsOf(u) : browse_content_callback(chat, u)
    \/ \E u \in Users, name \in Names : vip_get_callback(u, name)
    \/ \E name \in Names, price \in SettlePrices, file \in Files, d \in Descriptions :
          owner_add_content(name, price, file, d)
    \/ \E name \in Names, price \in Prices : owner_edit_price(name, price)
    \/ \E name \in Names : owner_delete_content(name)

SpecLedger == Init /\ [][NextLedger]_vars

\* --------------------------------------------------------- guided upload
(***************************************************************************)
(* A text message is held twice: as the string the code stores, and as the *)
(* sequence of its atoms, where an atom is a run of letters and digits or  *)
(* one other character.  No typed text has two runs next to each other or  *)
(* a "_" at either end, so the "_"-free parts of a name are its runs.      *)
(***************************************************************************)
TypedTexts ==
    { [text |-> "pic",         atoms |-> <<"pic">>],
      [text |-> " pic ",       atoms |-> <<" ", "pic", " ">>],
      [text |-> "my pic",      atoms |-> <<"my", " ", "pic">>],
      [text |-> "pic-2",       atoms |-> <<"pic", "-", "2">>],
      [text |-> "25",          atoms |-> <<"25">>],
      [text |-> "0",           atoms |-> <<"0">>],
      [text |-> " ",           atoms |-> <<" ">>],
      [text |-> "skip",        atoms |-> <<"skip">>],
      [text |-> "photo_set_1", atoms |-> <<"photo", "_", "set", "_", "1">>] }

\* the texts str.strip() can return
StrippedTexts == TypedTexts \cup {[text |-> "", atoms |-> <<>>]}

\* the files the operator sends: message.content_type and the file_id
FileMessages ==
    { [content_type |-> "photo", file_id |-> "photo_file_id"],
      [content_type |-> "document", file_id |-> "document_file_id"] }

\* who sends a message or presses a button
Senders == {OWNER_ID} \cup Users

\* the catalog sizes up to which the operator starts another upload
MaxItems == 3

\* str.strip()
RECURSIVE lstrip(_)
lstrip(atoms) ==
    IF atoms # <<>> /\ Head(atoms) = " " THEN lstrip(Tail(atoms)) ELSE atoms

RECURSIVE rstrip(_)
rstrip(atoms) ==
    IF atoms # <<>> /\ atoms[Len(atoms)] = " "
    THEN rstrip(SubSeq(atoms, 1, Len(atoms) - 1)) ELSE atoms

strip(t) == CHOOSE s \in StrippedTexts : s.atoms = lstrip(rstrip(t.atoms))

\* c.isalnum() for every character of the atom
isalnum(atom) == atom \notin {" ", "-", "_"}

\* the name validation of both flows accepts any name made of characters at all
name_is_valid_nonempty(name) == name.atoms # <<>>

\* not (not name or ' ' in name or not all(c.isalnum() or c == '_' for c in name))
name_is_valid(name) ==
    /\ name.atoms # <<>>
    /\ \A i \in 1..Len(name.atoms) : name.atoms[i] # " "
    /\ \A i \in 1..Len(name.atoms) : isalnum(name.atoms[i]) \/ name.atoms[i] = "_"

\* the name as content_items holds it: its "_"-free parts
NameKey(name) == SelectSeq(name.atoms, LAMBDA a : a # "_")

\* SELECT name FROM content_items WHERE name = ? finds nothing, ever
name_exists_never(items, name) == FALSE

\* SELECT name FROM content_items WHERE name = ?
name_exists(items, name) == NameKey(name) \in DOMAIN items

\* int(text): the number, or ValueError
StarsTyped == 0..25
IsInteger(t) == Len(t.atoms) = 1 /\ \E n \in StarsTyped : ToString(n) = t.atoms[1]
IntegerOf(t) == CHOOSE n \in StarsTyped : ToString(n) = t.atoms[1]

\* f"Exclusive {file_type.lower()} content" and f"Exclusive VIP {file_type.lower()}"
default_description(file_type) ==
    IF file_type = "Photo" THEN "Exclusive photo content"
    ELSE "Exclusive document content"

default_vip_description(file_type) ==
    IF file_type = "Photo" THEN "Exclusive VIP photo"
    ELSE "Exclusive VIP document"

\* the file_type handle_file_upload and handle_vip_upload_files derive
FileTypeOf(file) == IF file.content_type = "photo" THEN "Photo" ELSE "Document"

\* vip_photo_<timestamp>, and the same with the time appended
suggested_name == <<"vip", "photo", "timestamp">>
suggested_name_again == <<"vip", "photo", "timestamp", "time">>

InSession == upload_sessions.step # "none"
IsVipSession == upload_sessions.type = "vip_content"

\* session.get('content_type', 'browse')
ContentTypeOf(session) == IF session.type = "vip_content" THEN "vip" ELSE "browse"

\* the row save_uploaded_content inserts, with the price left out of the session
session_row_free(session) ==
    [price_stars |-> 0, file_path |-> session.file_path,
     description |-> session.description, content_type |-> ContentTypeOf(session)]

\* the row save_uploaded_content inserts
session_row(session) ==
    [price_stars |-> session.price, file_path |-> session.file_path,
     description |-> session.description, content_type |-> ContentTypeOf(session)]

\* the insert of save_uploaded_content as INSERT OR REPLACE
insert_content_replacing(items, session) == Upsert(items, session.name, session_row(session))

\* the INSERT of save_uploaded_content: name is the primary key, so the
\* statement raises on a taken name and the except branch leaves the table
insert_content(items, session) ==
    IF session.name \in DOMAIN items THEN items
    ELSE Upsert(items, session.name, session_row(session))

\* the frame of every upload step
UploadFrame ==
    UNCHANGED <<now, user_purchases, vip_subscriptions, vip_duration_days, invoices,
                payments, settled, delivered, renewals, threads>>

\* the message a handler of the upload flow sends
Answer(kind) == [kind |-> kind]

\* save_uploaded_content(session): insert, then delete the session on both
\* the success and the except branch
save_session(session) ==
    /\ content_items' = insert_content(content_items, session)
    /\ upload_sessions' = NoSession
    /\ reply' = IF session.name \in DOMAIN content_items
                THEN Answer("error_saving_content") ELSE Answer("content_added")

\* a start that keeps what the session in progress holds
new_session_keeping(old, type) ==
    [old EXCEPT !.type = type, !.step = "waiting_for_file"]

\* upload_sessions[OWNER_ID] = {...}: a new dictionary in place of any old one
new_session(old, type) ==
    [NoSession EXCEPT !.type = type, !.step = "waiting_for_file"]

\* /owner_upload and the start_upload button
owner_upload_content(sender) ==
    /\ Cardinality(DOMAIN content_items) < MaxItems
    /\ IF sender = OWNER_ID
       THEN /\ upload_sessions' = new_session(upload_sessions, "content")
            /\ reply' = Answer("upload_started")
       ELSE /\ UNCHANGED upload_sessions
            /\ reply' = Answer("access_denied")
    /\ UNCHANGED <<users, content_items>>
    /\ UploadFrame

\* the start_vip_upload button: start_vip_upload_session
start_vip_upload_session(sender) ==
    /\ Cardinality(DOMAIN content_items) < MaxItems
    /\ IF sender = OWNER_ID
       THEN /\ upload_sessions' = new_session(upload_sessions, "vip_content")
            /\ reply' = Answer("upload_started")
       ELSE /\ UNCHANGED upload_sessions
            /\ reply' = Answer("access_denied")
    /\ UNCHANGED <<users, content_items>>
    /\ UploadFrame

\* a file handler that takes the file at every step
file_handler_any_step(session, sender, file) ==
    IF sender # OWNER_ID \/ session.step = "none" THEN "none"
    ELSE IF session.type # "vip_content" THEN "handle_file_upload"
    ELSE IF file.content_type = "photo" THEN "handle_vip_upload_files"
    ELSE "none"

\* the first handler whose filter takes a file message
file_handler(session, sender, file) ==
    IF sender # OWNER_ID \/ session.step # "waiting_for_file" THEN "none"
    ELSE IF session.type # "vip_content" THEN "handle_file_upload"
    ELSE IF file.content_type = "photo" THEN "handle_vip_upload_files"
    ELSE "none"

\* handle_file_upload, and handle_vip_upload_files with handle_vip_file_upload;
\* a file that no filter takes is dropped without an answer
file_message(sender, file) ==
    /\ IF file_handler(upload_sessions, sender, file) = "none"
       THEN UNCHANGED <<upload_sessions, reply>>
       ELSE /\ upload_sessions' =
                 [upload_sessions EXCEPT !.file_path = file.file_id,
                                         !.file_type = FileTypeOf(file),
                                         !.step = "waiting_for_name"]
            /\ reply' = Answer("file_uploaded")
    /\ UNCHANGED <<users, content_items>>
    /\ UploadFrame

\* a regular flow that leaves the price step out
step_after_name_to_description(session) == "waiting_for_description"

\* the step a session takes when its name is accepted
step_after_name(session) ==
    IF session.type = "vip_content" THEN "waiting_for_description" ELSE "waiting_for_price"

\* the waiting_for_name branch of handle_upload_flow and handle_vip_name_input
name_input(session, items, text) ==
    IF name_is_valid(strip(text)) /\ ~name_exists(items, strip(text))
    THEN [session EXCEPT !.name = NameKey(strip(text)), !.step = step_after_name(session)]
    ELSE session

name_answer(items, text) ==
    IF ~name_is_valid(strip(text)) THEN Answer("invalid_name")
    ELSE IF name_exists(items, strip(text)) THEN Answer("name_exists")
    ELSE Answer("name_set")

\* a price step that takes every number
price_input_unchecked(session, text) ==
    IF IsInteger(strip(text))
    THEN [session EXCEPT !.price = IntegerOf(strip(text)), !.step = "waiting_for_description"]
    ELSE session

\* the waiting_for_price branch of handle_upload_flow
price_input(session, text) ==
    IF IsInteger(strip(text)) /\ IntegerOf(strip(text)) > 0
    THEN [session EXCEPT !.price = IntegerOf(strip(text)), !.step = "waiting_for_description"]
    ELSE session

price_answer(text) ==
    IF ~IsInteger(strip(text)) THEN Answer("invalid_price")
    ELSE IF IntegerOf(strip(text)) <= 0 THEN Answer("price_not_positive")
    ELSE Answer("price_set")

\* the waiting_for_description branch of handle_upload_flow
description_input(session, text) ==
    [session EXCEPT !.description =
        IF strip(text).text = "skip" THEN default_description(session.file_type)
        ELSE strip(text).text]

\* handle_vip_description_input
vip_description_input(session, text) ==
    [session EXCEPT !.description =
                        IF strip(text).text = "skip"
                        THEN default_vip_description(session.file_type)
                        ELSE strip(text).text,
                    !.price = 0]

\* a text message: handle_upload_flow takes every text of the owner while a
\* session exists (at waiting_for_file no branch of it matches); any other
\* text reaches handle_text_messages
text_message(sender, text) ==
    IF sender = OWNER_ID /\ InSession
    THEN /\ IF upload_sessions.step = "waiting_for_name"
            THEN /\ upload_sessions' = name_input(upload_sessions, content_items, text)
                 /\ reply' = name_answer(content_items, text)
                 /\ UNCHANGED content_items
            ELSE IF IsVipSession /\ upload_sessions.step = "waiting_for_description"
            THEN save_session(vip_description_input(upload_sessions, text))
            ELSE IF upload_sessions.step = "waiting_for_price"
            THEN /\ upload_sessions' = price_input(upload_sessions, text)
                 /\ reply' = price_answer(text)
                 /\ UNCHANGED content_items
            ELSE IF upload_sessions.step = "waiting_for_description"
            THEN save_session(description_input(upload_sessions, text))
            ELSE UNCHANGED <<upload_sessions, content_items, reply>>
         /\ UNCHANGED users
         /\ UploadFrame
    ELSE /\ users' = add_or_update_user(users, sender)
         /\ reply' = Answer("ai_response")
         /\ UNCHANGED <<upload_sessions, content_items>>
         /\ UploadFrame

\* a cancel button that leaves the session
cancel_upload_kept(session, sender) == session

\* the cancel_upload button
cancel_upload(session, sender) ==
    IF sender = OWNER_ID /\ session.step # "none" THEN NoSession ELSE session

cancel_upload_callback(sender) ==
    /\ upload_sessions' = cancel_upload(upload_sessions, sender)
    /\ reply' = IF sender = OWNER_ID /\ InSession
                THEN Answer("upload_cancelled") ELSE Answer("no_active_session")
    /\ UNCHANGED <<users, content_items>>
    /\ UploadFrame

\* the cancel_vip_upload button
cancel_vip_upload_callback(sender) ==
    /\ IF sender = OWNER_ID /\ IsVipSession
       THEN /\ upload_sessions' = NoSession
            /\ reply' = Answer("upload_cancelled")
       ELSE /\ UNCHANGED upload_sessions
            /\ reply' = Answer("no_active_session")
    /\ UNCHANGED <<users, content_items>>
    /\ UploadFrame

\* the skip_description button: any session of the owner in waiting_for_description
skip_description_callback(sender) ==
    /\ IF sender = OWNER_ID /\ InSession
       THEN IF upload_sessions.step = "waiting_for_description"
            THEN save_session([upload_sessions EXCEPT
                     !.description = default_description(upload_sessions.file_type)])
            ELSE /\ UNCHANGED <<upload_sessions, content_items>>
                 /\ reply' = Answer("invalid_step")
       ELSE /\ UNCHANGED <<upload_sessions, content_items>>
            /\ reply' = Answer("no_active_session")
    /\ UNCHANGED users
    /\ UploadFrame

\* the skip_vip_description button
skip_vip_description_callback(sender) ==
    /\ IF sender = OWNER_ID /\ IsVipSession
       THEN IF upload_sessions.step = "waiting_for_description"
            THEN save_session([upload_sessions EXCEPT
                     !.description = default_vip_description(upload_sessions.file_type),
                     !.price = 0])
            ELSE /\ UNCHANGED <<upload_sessions, content_items>>
                 /\ reply' = Answer("invalid_step")
       ELSE /\ UNCHANGED <<upload_sessions, content_items>>
            /\ reply' = Answer("no_active_session")
    /\ UNCHANGED users
    /\ UploadFrame

\* the use_suggested_name button of a VIP upload
use_suggested_name_callback(sender) ==
    /\ IF sender = OWNER_ID /\ IsVipSession
       THEN IF upload_sessions.step = "waiting_for_name"
            THEN /\ upload_sessions' =
                      [upload_sessions EXCEPT
                          !.name = IF suggested_name \in DOMAIN content_items
                                   THEN suggested_name_again ELSE suggested_name,
                          !.step = "waiting_for_description"]
                 /\ reply' = Answer("name_set")
            ELSE /\ UNCHANGED upload_sessions
                 /\ reply' = Answer("invalid_step")
       ELSE /\ UNCHANGED upload_sessions
            /\ reply' = Answer("no_active_session")
    /\ UNCHANGED <<users, content_items>>
    /\ UploadFrame

\* the names a guided upload can give an item
UploadNames == {<<"pic">>, <<"25">>, <<"0">>, <<"skip">>, suggested_name, suggested_name_again}

NextUpload ==
    \/ \E sender \in Senders : owner_upload_content(sender)
    \/ \E sender \in Senders : start_vip_upload_session(sender)
    \/ \E sender \in Senders, file \in FileMessages : file_message(sender, file)
    \/ \E sender \in Senders, text \in TypedTexts : text_message(sender, text)
    \/ \E sender \in Senders : cancel_upload_callback(sender)
    \/ \E sender \in Senders : cancel_vip_upload_callback(sender)
    \/ \E sender \in Senders : skip_description_callback(sender)
    \/ \E sender \in Senders : skip_vip_description_callback(sender)
    \/ \E sender \in Senders : use_suggested_name_callback(sender)
    \/ \E name \in Names, price \in SettlePrices, file \in Files, d \in Descriptions :
          owner_add_content(name, price, file, d)
    \/ \E name \in UploadNames : owner_delete_content(name)

SpecUpload == Init /\ [][NextUpload]_vars

\* ------------------------------------------------------ the owner's identity
\* the answer of an owner-only command to anyone else
access_denied ==
    /\ reply' = Answer("access_denied")
    /\ UNCHANGED <<now, users, content_items, user_purchases, vip_subscriptions,
                   vip_duration_days, invoices, payments, settled, delivered, renewals,
                   threads, upload_sessions>>

\* a command that does not look at who sent it
owner_only_open(sender, command) == command

\* if message.from_user.id != OWNER_ID: access denied, return
owner_only(sender, command) == IF sender = OWNER_ID THEN command ELSE access_denied

\* a command registered before handle_upload_flow (/owner_add_content,
\* /owner_delete_content) is taken as a command at every time
early_command(sender, command) == owner_only(sender, command)

\* a command registered after handle_upload_flow (the edits, the settings)
\* reaches its handler unless it is a text of the owner during a session
late_command(sender, command) ==
    /\ ~(sender = OWNER_ID /\ InSession)
    /\ owner_only(sender, command)

\* the texts typed in the runs about identities
IdentityTexts == {t \in TypedTexts : t.text \in {"pic", "25", "my pic"}}

NextIdentity ==
    \/ \E sender \in Senders : owner_upload_content(sender)
    \/ \E sender \in Senders : start_vip_upload_session(sender)
    \/ \E sender \in Senders, file \in FileMessages : file_message(sender, file)
    \/ \E sender \in Senders, text \in IdentityTexts : text_message(sender, text)
    \/ \E sender \in Senders : cancel_upload_callback(sender)
    \/ \E sender \in Senders : cancel_vip_upload_callback(sender)
    \/ \E sender \in Senders : skip_description_callback(sender)
    \/ \E sender \in Senders : skip_vip_description_callback(sender)
    \/ \E sender \in Senders : use_suggested_name_callback(sender)
    \/ \E sender \in Senders, name \in Names, price \in SettlePrices, file \in Files,
          d \in Descriptions :
          early_command(sender, owner_add_content(name, price, file, d))
    \/ \E sender \in Senders, name \in UploadNames :
          early_command(sender, owner_delete_content(name))
    \/ \E sender \in Senders, name \in Names, price \in Prices :
          late_command(sender, owner_edit_price(name, price))
    \/ \E sender \in Senders, name \in Names, d \in Descriptions :
          late_command(sender, owner_edit_description(name, d))
    \/ \E sender \in Senders, name \in Names, file \in Files :
          late_command(sender, owner_edit_file_path(name, file))
    \/ \E sender \in Senders, days \in Durations :
          late_command(sender, owner_set_vip_duration(days))

SpecIdentity == Init /\ [][NextIdentity]_vars

\* ------------------------------------------------------- asset delivery
\* deliver_owned_content: the answer to a request for owned content; sent
\* tells whether Telegram took the messages that carry the asset
deliver_owned_content(u, name, sent) ==
    IF ~Owns(u, name) THEN Answer("not_owned")
    ELSE IF name \notin DOMAIN content_items THEN Answer("content_not_found")
    ELSE IF sent THEN Answer("owned_content_sent")
    ELSE Answer("delivery_issue")

\* the "access_<name>" button
access_callback(u, name, sent) ==
    /\ reply' = deliver_owned_content(u, name, sent)
    /\ UNCHANGED <<now, users, content_items, user_purchases, vip_subscriptions,
                   vip_duration_days, invoices, payments, settled, delivered, renewals,
                   threads, upload_sessions>>

\* successful_payment_handler on a notification of a content payment: the
\* ledger is written and committed, then the asset is sent, which Telegram
\* takes or not
content_payment_notification(p, sent) ==
    LET parts == payments[p].payload
        amount == payments[p].amount
        content_name == payload_content_name(parts)
        user_id == payload_user_id(parts)
    IN  /\ Handled(settled) < MaxSettle
        /\ IsContentPayload(parts)
        /\ ~PayloadRaises(parts)
        /\ settled' = [settled EXCEPT ![p] = @ + 1]
        /\ IF ForeignKeyFails(user_id, content_name)
           THEN UNCHANGED <<users, user_purchases, delivered, reply>>
           ELSE /\ users' = add_spent(users, user_id, amount)
                /\ user_purchases' =
                     insert_or_ignore(user_purchases, user_id, content_name, now, amount)
                /\ delivered' =
                     IF content_name \in DOMAIN content_items /\ sent
                     THEN Upsert(delivered, <<user_id, content_name>>,
                                 Count(delivered, <<user_id, content_name>>) + 1)
                     ELSE delivered
                /\ reply' =
                     IF content_name \notin DOMAIN content_items THEN reply
                     ELSE IF sent THEN Answer("content_sent")
                     ELSE Answer("delivery_issue")
        /\ UNCHANGED <<now, content_items, vip_subscriptions, vip_duration_days, invoices,
                       payments, renewals, threads, upload_sessions>>

NextDelivery ==
    \/ \E u \in Users, name \in Names : buy_command(u, name)
    \/ \E inv \in invoices : pre_checkout_handler(inv)
    \/ \E p \in DOMAIN payments, sent \in BOOLEAN : content_payment_notification(p, sent)
    \/ \E u \in Users, name \in Names, sent \in BOOLEAN : access_callback(u, name, sent)
    \/ \E name \in Names, price \in Prices, file \in Files, d \in Descriptions :
          owner_add_content(name, price, file, d)
    \/ \E name \in Names : owner_delete_content(name)

SpecDelivery == Init /\ [][NextDelivery]_vars

\* ------------------------------------------------------------------ claims
\* a step that handles one more notification of payment p
Settles(p) == settled'[p] = settled[p] + 1

\* a step that completes an activate_vip_subscription call for user u
Renews(u) == renewals'[u] # renewals[u]

RowsOf(rows, u, name) == {r \in rows : r.user_id = u /\ r.content_name = name}

C2_OwnsForever ==
    [][\A u \in Users, name \in Names : Owns(u, name) => Owns(u, name)']_vars

\* the item was bought and then deleted, the buyer renewed a subscription,
\* and the item is still owned
C2_Witness ==
    \E r \in user_purchases :
        /\ r.content_name \notin DOMAIN content_items
        /\ Owns(r.user_id, r.content_name)
        /\ r.user_id \in DOMAIN vip_subscriptions
        /\ Len(renewals[r.user_id]) >= 1

\* C3: the settlement handler delivers the content of (u, i) exactly once, in
\* the settlement that created the Purchase row.
C3_DeliveredOnce ==
    \A u \in Users, name \in Names :
        Count(delivered, <<u, name>>) = IF Owns(u, name) THEN 1 ELSE 0

\* C4: a second notification of the same subscription payment leaves the
\* subscription row (expiry and renewal counter) as the first one left it.
C4_SubscriptionSettledOnce ==
    [][\A p \in DOMAIN payments :
          (Settles(p) /\ settled[p] >= 1 /\ IsVipPayload(payments[p].payload))
          => vip_subscriptions' = vip_subscriptions]_vars

\* C5: two renewals of one user handled by two worker threads leave what two
\* renewals run one after the other leave.  With the duration unchanged and
\* no subscription lapsing, n renewals in a row end n periods after the day
\* of the first and count n: with no handler in progress the row says so.
C5_RenewalsSerialize ==
    (\A w \in Workers : threads[w].pc = "idle")
    => \A u \in DOMAIN vip_subscriptions :
          /\ vip_subscriptions[u].expiry_date =
                vip_subscriptions[u].start_date + Len(renewals[u]) * vip_duration_days
          /\ vip_subscriptions[u].total_payments = Len(renewals[u])

\* C6: a renewal of a row flagged active sets the expiry to
\* max(current expiry, now) + D.
C6_RenewalExtendsFromExpiry ==
    [][\A u \in Users :
          (Renews(u) /\ u \in DOMAIN vip_subscriptions
                     /\ vip_subscriptions[u].is_active = 1)
          => vip_subscriptions'[u].expiry_date =
                Max(vip_subscriptions[u].expiry_date, now) + vip_duration_days]_vars

\* subscribed on day 0 for 30 days, renewed on day 25: the expiry is day 60
C6_Witness ==
    \E u \in DOMAIN vip_subscriptions :
        /\ renewals[u] = <<0, 25>>
        /\ now = 25
        /\ vip_duration_days = 30
        /\ vip_subscriptions[u].start_date = 0
        /\ vip_subscriptions[u].expiry_date = 60

\* C7 as stated: renewed with 5 days left and a duration of 30, the new
\* expiry is 35 days after the original expiry.
C7_AsStated ==
    [][\A u \in Users :
          (Renews(u) /\ u \in DOMAIN vip_subscriptions
                     /\ vip_subscriptions[u].is_active = 1
                     /\ vip_subscriptions[u].expiry_date - now = 5
                     /\ vip_duration_days = 30)
          => vip_subscriptions'[u].expiry_date =
                vip_subscriptions[u].expiry_date + 35]_vars

\* C7 amended: renewed with 5 days left and a duration of 30, the new expiry
\* is 35 days from now, which is 30 days after the original expiry, and not
\* 30 days from now.
C7_ThirtyFiveDaysFromNow ==
    [][\A u \in Users :
          (Renews(u) /\ u \in DOMAIN vip_subscriptions
                     /\ vip_subscriptions[u].is_active = 1
                     /\ vip_subscriptions[u].expiry_date - now = 5
                     /\ vip_duration_days = 30)
          => /\ vip_subscriptions'[u].expiry_date = now + 35
             /\ vip_subscriptions'[u].expiry_date =
                   vip_subscriptions[u].expiry_date + 30
             /\ vip_subscriptions'[u].expiry_date # now + 30]_vars

\* the last renewal was made today and the subscription now ends in 35 days
C7_Witness ==
    \E u \in DOMAIN vip_subscriptions :
        /\ Len(renewals[u]) >= 2
        /\ renewals[u][Len(renewals[u])] = now
        /\ renewals[u][Len(renewals[u]) - 1] < now
        /\ vip_duration_days = 30
        /\ vip_subscriptions[u].expiry_date = now + 35
        /\ vip_subscriptions[u].total_payments = Len(renewals[u])

\* C8: a renewal for a user with no row, with a row flagged inactive, or with
\* a row whose expiry has passed yields expiry = now + D, flagged active.
C8_RenewalFromNow ==
    [][\A u \in Users :
          (Renews(u) /\ (\/ u \notin DOMAIN vip_subscriptions
                         \/ vip_subscriptions[u].is_active = 0
                         \/ vip_subscriptions[u].expiry_date <= now))
          => /\ u \in DOMAIN vip_subscriptions'
             /\ vip_subscriptions'[u].expiry_date = now + vip_duration_days
             /\ vip_subscriptions'[u].is_active = 1]_vars

\* renewed today for the second time, after the first period (of one day)
\* had passed and before any status check had deactivated the row
C8_Witness ==
    \E u \in DOMAIN vip_subscriptions :
        /\ Len(renewals[u]) = 2
        /\ renewals[u][2] = now
        /\ renewals[u][1] < now
        /\ vip_subscriptions[u].total_payments = 2
        /\ vip_subscriptions[u].expiry_date = now + vip_duration_days
        /\ vip_subscriptions[u].is_active = 1

C10_CounterCountsRenewals ==
    \A u \in DOMAIN vip_subscriptions :
        vip_subscriptions[u].total_payments = Len(renewals[u])

\* C11: a status check reports active exactly when the user has a row flagged
\* active whose expiry is after now; on a row flagged active whose expiry has
\* passed it reports inactive and clears the flag, the row and its other
\* fields staying as they were; in every other case it changes nothing.
C11_StatusCheck ==
    [][\A u \in Users :
          vip_access_callback(u)
          => LET status == StatusOf(SelectActive(vip_subscriptions, u), now)
                 flagged == u \in DOMAIN vip_subscriptions
                            /\ vip_subscriptions[u].is_active = 1
             IN  /\ status.is_vip <=>
                       (flagged /\ vip_subscriptions[u].expiry_date > now)
                 /\ IF flagged /\ vip_subscriptions[u].expiry_date <= now
                    THEN /\ ~status.is_vip
                         /\ vip_subscriptions' =
                               [vip_subscriptions EXCEPT ![u].is_active = 0]
                    ELSE vip_subscriptions' = vip_subscriptions]_vars

\* a renewed subscription has lapsed and a status check has cleared its flag
C11_Witness ==
    \E u \in DOMAIN vip_subscriptions :
        /\ vip_subscriptions[u].is_active = 0
        /\ vip_subscriptions[u].expiry_date <= now
        /\ vip_subscriptions[u].total_payments = 2
        /\ vip_subscriptions[u].start_date < vip_subscriptions[u].expiry_date

\* C12: a status check made twice in a row at the same time leaves the
\* table as one check leaves it, and the second check reports the same
\* active value as the first.
C12_StatusCheckIdempotent ==
    \A u \in Users :
        LET once == check_vip_status(vip_subscriptions, u, now)
            twice == check_vip_status(once, u, now)
        IN  /\ twice = once
            /\ StatusOf(SelectActive(once, u), now).is_vip =
                  StatusOf(SelectActive(vip_subscriptions, u), now).is_vip

\* a row flagged active whose expiry has passed: the first check writes
C12_Witness ==
    \E u \in DOMAIN vip_subscriptions :
        /\ vip_subscriptions[u].is_active = 1
        /\ vip_subscriptions[u].expiry_date < now
        /\ check_vip_status(vip_subscriptions, u, now) # vip_subscriptions

\* C13: for every item of the subscription pool, whatever its price and
\* whether or not the user has a purchase under its name, the purchase
\* request is answered NotIndividual and no invoice is sent.
C13_SubscriptionItemNotSold ==
    \A u \in Users, name \in DOMAIN content_items :
        content_items[name].content_type = "vip"
        => /\ ResolvePurchaseRequest(u, name) = "NotIndividual"
           /\ purchase_item(u, name) = invoices

\* an item bought as an individual one, deleted, uploaded again to the
\* subscription pool and given a price
C13_Witness ==
    \E u \in Users, name \in DOMAIN content_items :
        /\ content_items[name].content_type = "vip"
        /\ content_items[name].price_stars > 0
        /\ Owns(u, name)

\* C14: an invoice for an item is sent only when the purchase decision is
\* Proceed, which is the decision exactly when the item exists, is of the
\* individual pool and the user has no purchase of it; for an owned item
\* the decision is AlreadyOwned, for an unknown name NotFound, and in both
\* cases no invoice is sent and no table changes.
C14_InvoiceOnlyOnProceed ==
    [][/\ \A inv \in invoices' \ invoices :
             IsContentPayload(inv.payload)
             => \E u \in Users, name \in DOMAIN content_items :
                   /\ inv = [payload |-> content_payload(name, u),
                             amount |-> content_items[name].price_stars]
                   /\ ResolvePurchaseRequest(u, name) = "Proceed"
                   /\ content_items[name].content_type = "browse"
                   /\ ~Owns(u, name)
       /\ \A u \in Users, name \in Names :
             (buy_command(u, name) \/ buy_callback(u, name))
             => LET outcome == ResolvePurchaseRequest(u, name)
                    individual == name \in DOMAIN content_items
                                  /\ content_items[name].content_type = "browse"
                IN  /\ (outcome = "Proceed") <=> (individual /\ ~Owns(u, name))
                    /\ (individual /\ Owns(u, name)) => outcome = "AlreadyOwned"
                    /\ name \notin DOMAIN content_items => outcome = "NotFound"
                    /\ outcome # "Proceed" => invoices' = invoices
                    /\ outcome \in {"AlreadyOwned", "NotFound"}
                       => /\ user_purchases' = user_purchases
                          /\ content_items' = content_items
                          /\ vip_subscriptions' = vip_subscriptions
                          /\ \A x \in DOMAIN users : users'[x] = users[x]]_vars

\* the item is owned and on sale at another price than the one paid, and the
\* only invoice ever sent for it is the one it was bought with
C14_Witness ==
    \E r \in user_purchases :
        /\ r.content_name \in DOMAIN content_items
        /\ content_items[r.content_name].content_type = "browse"
        /\ content_items[r.content_name].price_stars # r.price_paid
        /\ ResolvePurchaseRequest(r.user_id, r.content_name) = "AlreadyOwned"
        /\ invoices = {[payload |-> content_payload(r.content_name, r.user_id),
                        amount |-> r.price_paid]}

\* C15: a user with a users row asks for the seeded item "photo_set_1" and
\* gets the invoice of a Proceed decision; once the notification of that
\* payment has been handled, the user owns the item and a second request is
\* answered AlreadyOwned.
C15_SeededItemBought ==
    [][\A u \in Users, p \in DOMAIN payments :
          (/\ Settles(p)
           /\ payments[p] = [payload |-> content_payload(photo_set_1, u),
                             amount |-> content_items[photo_set_1].price_stars]
           /\ u \in DOMAIN users
           /\ photo_set_1 \in DOMAIN content_items)
          => /\ Owns(u, photo_set_1)'
             /\ ResolvePurchaseRequest(u, photo_set_1)' = "AlreadyOwned"]_vars

\* C16: for every user and item at most one payment is accepted, whatever
\* requests, pre-checkout queries and notifications there were.
C16_OnePaymentPerPair ==
    \A u \in Users, name \in Names :
        Cardinality({p \in DOMAIN payments :
                        payments[p].payload = content_payload(name, u)}) <= 1

\* the user's subscription as the table holds it at this moment: a row
\* flagged active whose expiry is after now
SubscriptionActive(u) ==
    /\ u \in DOMAIN vip_subscriptions
    /\ vip_subscriptions[u].is_active = 1
    /\ vip_subscriptions[u].expiry_date > now

\* C17: opening the subscription library answers Denied (the upgrade prompt)
\* whenever the user's subscription is inactive, however many items the
\* subscription pool holds; the library, empty or not, is shown only to an
\* active subscriber and lists exactly the pool, so an empty list means an
\* active subscriber and an empty pool.
C17_LibraryDeniedWhenInactive ==
    [][\A u \in Users :
          vip_content_catalog_callback(u)
          => /\ ~SubscriptionActive(u) => reply' = [kind |-> "vip_required", user |-> u]
             /\ reply'.kind = "vip_catalog"
                => /\ SubscriptionActive(u)
                   /\ reply'.items = ItemsOfType("vip")
             /\ (reply'.kind = "vip_catalog" /\ reply'.items = {})
                => (SubscriptionActive(u) /\ ItemsOfType("vip") = {})]_vars

\* the library was denied to a user whose subscription lapsed (the status check
\* cleared the flag) while the subscription pool holds an item
C17_Witness ==
    /\ reply.kind = "vip_required"
    /\ ItemsOfType("vip") # {}
    /\ \E u \in DOMAIN vip_subscriptions :
          /\ reply.user = u
          /\ vip_subscriptions[u].is_active = 0
          /\ vip_subscriptions[u].expiry_date <= now

\* C18: a "vip_get" request delivers the item for free exactly when, at the
\* time of the request, the item exists in the subscription pool and the
\* user's subscription is active; a user whose row is still flagged active
\* but whose expiry has passed is denied (and the flag is cleared), and an
\* item of the individual pool is never delivered this way.
C18_FreeAccessOnlyToSubscribers ==
    [][\A u \in Users, name \in Names :
          vip_get_callback(u, name)
          => /\ reply'.kind = "vip_content"
                <=> /\ name \in DOMAIN content_items
                    /\ content_items[name].content_type = "vip"
                    /\ SubscriptionActive(u)
             /\ reply'.kind = "vip_content"
                => /\ reply'.user = u
                   /\ reply'.name = name
                   /\ reply'.file_path = content_items[name].file_path
             /\ (/\ u \in DOMAIN vip_subscriptions
                 /\ vip_subscriptions[u].is_active = 1
                 /\ vip_subscriptions[u].expiry_date <= now)
                => /\ reply'.kind = "vip_get_denied"
                   /\ vip_subscriptions'[u].is_active = 0
             /\ (name \in DOMAIN content_items /\ content_items[name].content_type = "browse")
                => reply'.kind # "vip_content"]_vars

\* a request for an item of the subscription pool was denied to a user whose
\* subscription had expired, the request itself clearing the flag
C18_Witness ==
    /\ reply.kind = "vip_get_denied"
    /\ reply.name \in ItemsOfType("vip")
    /\ reply.user \in DOMAIN vip_subscriptions
    /\ vip_subscriptions[reply.user].is_active = 0
    /\ vip_subscriptions[reply.user].expiry_date <= now

\* a step in which user u opens the purchasable catalog in the given chat
ListsPurchasable(chat, u) ==
    \/ buy_command_catalog(chat, u)
    \/ browse_content_callback(chat, u)
    \/ buy_premium_callback(chat, u)

\* C19: every item is in exactly one of the two pools; when a user opens the
\* purchasable catalog it holds exactly the items of the individual pool,
\* each offered as re-access if that user owns it and as buy otherwise, and
\* no item of the subscription pool; the subscription library holds no item
\* of the individual pool.
C19_PoolsGateListings ==
    [][/\ \A name \in DOMAIN content_items' :
             content_items'[name].content_type \in {"browse", "vip"}
       /\ ItemsOfType("browse") \cap ItemsOfType("vip") = {}
       /\ \A u \in Users : \A chat \in ChatsOf(u) :
             ListsPurchasable(chat, u)
             => /\ DOMAIN reply'.offers = ItemsOfType("browse")
                /\ DOMAIN reply'.offers \cap ItemsOfType("vip") = {}
                /\ \A name \in DOMAIN reply'.offers :
                      reply'.offers[name] = IF Owns(u, name) THEN "access" ELSE "buy"
       /\ \A u \in Users :
             (vip_content_catalog_callback(u) /\ reply'.kind = "vip_catalog")
             => reply'.items \cap ItemsOfType("browse") = {}]_vars

\* C20: the content of a paid item is sent only by a handler whose
\* transaction has been committed (the Purchase row of the pair and the
\* amount added to the user's spend are in the tables when the delivery
\* step is taken), and the activation message only after the subscription
\* write of that handler was committed; a handler whose ledger write raised
\* ends there, with nothing written and nothing delivered, and no other
\* step of the settlement signals a delivery.
C20_DeliverAfterCommit ==
    [][/\ \A w \in Workers :
             w_deliver_content(w)
             => LET p == threads[w].payment
                    u == payload_user_id(payments[p].payload)
                    name == payload_content_name(payments[p].payload)
                IN  /\ Owns(u, name)
                    /\ u \in DOMAIN users
                    /\ users[u].total_stars_spent >= payments[p].amount
                    /\ settled[p] >= 1
       /\ \A w \in Workers :
             w_send_confirmation(w)
             => LET u == threads[w].user_id
                IN  /\ u \in DOMAIN vip_subscriptions
                    /\ Len(renewals[u]) >=
                          Cardinality({v \in Workers : /\ threads[v].pc = "confirm"
                                                       /\ threads[v].user_id = u})
       /\ \A w \in Workers :
             (/\ w_write_purchase(w)
              /\ ForeignKeyFails(threads[w].user_id,
                     payload_content_name(payments[threads[w].payment].payload)))
             => /\ threads'[w].pc = "raised"
                /\ UNCHANGED <<users, user_purchases, delivered, reply>>
       /\ delivered' # delivered => \E w \in Workers : w_deliver_content(w)
       /\ (reply' # reply /\ reply'.kind = "vip_activated")
          => \E w \in Workers : w_send_confirmation(w)]_vars

\* two notifications for the same pair were handled: the write of the first
\* raised (no user row yet) and nothing was delivered, the second was
\* committed and then delivered
C20_Witness ==
    \E u \in DOMAIN users :
        /\ Len(payments) = 2
        /\ settled = <<1, 1>>
        /\ payments[1].payload = content_payload(pic, u)
        /\ payments[2].payload = content_payload(pic, u)
        /\ Owns(u, pic)
        /\ users[u].total_stars_spent = payments[2].amount
        /\ Count(delivered, <<u, pic>>) = 1
        /\ \A w \in Workers : threads[w] = Idle

\* a subscription payment of u is being handled by some worker thread
SettlingVip(u) ==
    \E w \in Workers : /\ threads[w].pc \in {"settings", "select", "write"}
                       /\ threads[w].user_id = u

\* C21: a settlement applies its ledger effect as a whole or not at all.  A
\* content settlement whose write raises leaves the spend, the purchases and
\* the subscriptions as they were; and once no subscription payment of a user
\* is being handled, the user's lifetime spend holds no more subscription
\* prices than periods were granted (the content payments of a user amount
\* to less than one subscription price).
C21_SettleAtomic ==
    [][/\ \A w \in Workers :
             (w_write_purchase(w) /\ threads'[w].pc = "raised")
             => UNCHANGED <<users, user_purchases, vip_subscriptions>>
       /\ \A u \in DOMAIN users' :
             ~SettlingVip(u)'
             => users'[u].total_stars_spent \div vip_price_stars <= Len(renewals'[u])]_vars

\* C22: the set of Purchase rows changes only in a content settlement, which
\* adds one row; every row, with all its fields, is still there after every
\* step of every operation.
C22_PurchasesOnlyBySettlement ==
    [][/\ user_purchases \subseteq user_purchases'
       /\ user_purchases' # user_purchases
          => /\ \E p \in DOMAIN payments :
                   /\ successful_payment_handler(p)
                   /\ IsContentPayload(payments[p].payload)
             /\ Cardinality(user_purchases') = Cardinality(user_purchases) + 1]_vars

\* a Purchase row after a second notification for its pair was handled, the
\* item's price was changed, the buyer subscribed and was shown the catalog
\* with the item as owned
C22_Witness ==
    \E r \in user_purchases :
        /\ Handled(settled) = 2
        /\ reply.kind = "catalog"
        /\ r.content_name \in DOMAIN reply.offers
        /\ reply.offers[r.content_name] = "access"
        /\ r.content_name \in DOMAIN content_items
        /\ content_items[r.content_name].price_stars # r.price_paid
        /\ r.user_id \in DOMAIN vip_subscriptions

\* the position of a step of the guided upload in the order of the flow
StepOrder(step) ==
    CASE step = "waiting_for_file" -> 1
      [] step = "waiting_for_name" -> 2
      [] step = "waiting_for_price" -> 3
      [] step = "waiting_for_description" -> 4
      [] OTHER -> 0

\* a session as the two start operations create it
IsFreshSession(session) ==
    /\ session.step = "waiting_for_file"
    /\ [session EXCEPT !.type = "none", !.step = "none"] = NoSession

\* a step in which save_uploaded_content inserted the session's item
Commits ==
    /\ InSession
    /\ upload_sessions' = NoSession
    /\ content_items' # content_items

\* C23: a session for an individual item that is not replaced by a new one
\* either stays at its step, or moves to the next step of file, name, price,
\* description, or ends; its item is inserted only from the description step.
C23_RegularOrder ==
    [][(upload_sessions.type = "content" /\ ~IsFreshSession(upload_sessions'))
       => /\ \/ upload_sessions'.step = upload_sessions.step
             \/ /\ upload_sessions'.type = "content"
                /\ StepOrder(upload_sessions'.step) = StepOrder(upload_sessions.step) + 1
             \/ upload_sessions' = NoSession
          /\ Commits => upload_sessions.step = "waiting_for_description"]_vars

\* an individual item that a session took through all four steps
C23_Witness ==
    /\ ~InSession
    /\ \E n \in DOMAIN content_items :
          /\ content_items[n].content_type = "browse"
          /\ content_items[n].file_path = "photo_file_id"
          /\ content_items[n].price_stars = 25
          /\ content_items[n].description = "my pic"

\* C24: a session for a subscription item is never at the price step, and
\* the item it inserts has price 0 and content_type vip.
C24_VipCommitsFree ==
    [][/\ IsVipSession' => upload_sessions'.step # "waiting_for_price"
       /\ (IsVipSession /\ Commits)
          => /\ content_items'[upload_sessions.name].price_stars = 0
             /\ content_items'[upload_sessions.name].content_type = "vip"]_vars

\* the name a text gives is empty, has a space, has a character that is no
\* letter, digit or underscore, or is the name of an item
NameToReject(text) ==
    LET name == lstrip(rstrip(text.atoms))
    IN \/ name = <<>>
       \/ \E i \in 1..Len(name) : name[i] \in {" ", "-"}
       \/ SelectSeq(name, LAMBDA a : a # "_") \in DOMAIN content_items

\* C25: at the name step of either flow, a text whose name is empty, has
\* whitespace or another character outside letters, digits and underscore, or
\* is taken by an item, leaves the session and the catalog as they were.
C25_BadNameRejected ==
    [][\A text \in TypedTexts :
          (/\ upload_sessions.step = "waiting_for_name"
           /\ NameToReject(text)
           /\ text_message(OWNER_ID, text))
          => UNCHANGED <<upload_sessions, content_items>>]_vars

\* a session still at the name step, with its file, after a name was refused
C25_Witness ==
    /\ upload_sessions.step = "waiting_for_name"
    /\ upload_sessions.file_path = "document_file_id"
    /\ upload_sessions.file_type = "Document"
    /\ upload_sessions.name = <<>>
    /\ reply.kind \in {"invalid_name", "name_exists"}

\* C26: at the name step, a text that is a price, such as "25", leaves the
\* session at the name step, and no item is created.
C26_PriceAtNameStep ==
    [][\A text \in TypedTexts :
          (/\ upload_sessions.step = "waiting_for_name"
           /\ IsInteger(text) /\ IntegerOf(text) > 0
           /\ text_message(OWNER_ID, text))
          => /\ upload_sessions'.step = "waiting_for_name"
             /\ DOMAIN content_items' = DOMAIN content_items]_vars

\* C27: a file sent while the session is at the name, price or description
\* step replaces no stored file and moves no step, and a text sent at the
\* file step moves no step.
C27_InputKindMatchesStep ==
    [][/\ \A file \in FileMessages :
             (/\ upload_sessions.step \in {"waiting_for_name", "waiting_for_price",
                                            "waiting_for_description"}
              /\ file_message(OWNER_ID, file))
             => /\ upload_sessions'.file_path = upload_sessions.file_path
                /\ upload_sessions'.step = upload_sessions.step
       /\ \A text \in TypedTexts :
             (/\ upload_sessions.step = "waiting_for_file"
              /\ text_message(OWNER_ID, text))
             => upload_sessions'.step = "waiting_for_file"]_vars

\* a session past the file step that holds the document it was given, where
\* a photo sent next finds no handler
C27_Witness ==
    /\ upload_sessions.step = "waiting_for_price"
    /\ upload_sessions.file_path = "document_file_id"
    /\ reply.kind = "invalid_price"
    /\ \A file \in FileMessages : file_handler(upload_sessions, OWNER_ID, file) = "none"

\* a text, a regular skip or a VIP skip that commits the session: the session
\* is at the description step and no item has its name
CommitStep ==
    /\ upload_sessions.step = "waiting_for_description"
    /\ upload_sessions.name \notin DOMAIN content_items
    /\ \/ \E text \in TypedTexts : text_message(OWNER_ID, text)
       \/ skip_description_callback(OWNER_ID)
       \/ IsVipSession /\ skip_vip_description_callback(OWNER_ID)

\* the descriptions a commit can give the session: the stripped text typed
\* at the description step, or the default of the flow
CommitDescriptions(session) ==
    {"", "pic", "my pic", "pic-2", "25", "0", "photo_set_1"}
    \cup (IF session.file_type = "Photo"
          THEN {"Exclusive photo content", "Exclusive VIP photo"}
          ELSE {"Exclusive document content", "Exclusive VIP document"})

\* C28: a commit that succeeds adds one item under the session's name, with
\* the session's price, file, description and content_type, leaves every
\* other item as it was, and removes the session.
C28_CommitWritesSession ==
    [][CommitStep
       => /\ DOMAIN content_items' = DOMAIN content_items \cup {upload_sessions.name}
          /\ \A n \in DOMAIN content_items : content_items'[n] = content_items[n]
          /\ content_items'[upload_sessions.name].file_path = upload_sessions.file_path
          /\ content_items'[upload_sessions.name].content_type =
                (IF upload_sessions.type = "vip_content" THEN "vip" ELSE "browse")
          /\ content_items'[upload_sessions.name].price_stars
                \in (IF upload_sessions.type = "vip_content"
                     THEN {0, upload_sessions.price} ELSE {upload_sessions.price})
          /\ content_items'[upload_sessions.name].description
                \in CommitDescriptions(upload_sessions)
          /\ upload_sessions' = NoSession]_vars

\* a committed upload next to the untouched seeded items, with no session left
C28_Witness ==
    /\ upload_sessions = NoSession
    /\ reply.kind = "content_added"
    /\ \A n \in SeededNames : n \in DOMAIN content_items /\ content_items[n] = sample_content[n]
    /\ <<"pic">> \in DOMAIN content_items
    /\ content_items[<<"pic">>] =
          [price_stars |-> 25, file_path |-> "document_file_id",
           description |-> "Exclusive document content", content_type |-> "browse"]

\* a text, a regular skip or a VIP skip that tries to commit a session whose
\* name an item has taken since the name step
FailingCommitStep ==
    /\ upload_sessions.step = "waiting_for_description"
    /\ upload_sessions.name \in DOMAIN content_items
    /\ \/ \E text \in TypedTexts : text_message(OWNER_ID, text)
       \/ skip_description_callback(OWNER_ID)
       \/ IsVipSession /\ skip_vip_description_callback(OWNER_ID)

\* C29: a commit that fails because an item already has the session's name
\* removes the session and leaves the catalog as it was: nothing is added
\* and the item with that name is not overwritten.
C29_FailedCommitDiscards ==
    [][FailingCommitStep
       => /\ content_items' = content_items
          /\ upload_sessions' = NoSession]_vars

\* the item of the direct add after the commit of a session with its name
\* failed
C29_Witness ==
    /\ upload_sessions = NoSession
    /\ reply.kind = "error_saving_content"
    /\ pic \in DOMAIN content_items
    /\ content_items[pic] = [price_stars |-> 10, file_path |-> "file_id",
                             description |-> "text", content_type |-> "browse"]

\* the owner presses the cancel button of the session in progress
CancelStep ==
    /\ InSession
    /\ \/ cancel_upload_callback(OWNER_ID)
       \/ IsVipSession /\ cancel_vip_upload_callback(OWNER_ID)

\* a file, a text or a button other than the two that start an upload
LaterInput ==
    \/ \E sender \in Senders, file \in FileMessages : file_message(sender, file)
    \/ \E sender \in Senders, text \in TypedTexts : text_message(sender, text)
    \/ \E sender \in Senders : cancel_upload_callback(sender)
    \/ \E sender \in Senders : cancel_vip_upload_callback(sender)
    \/ \E sender \in Senders : skip_description_callback(sender)
    \/ \E sender \in Senders : skip_vip_description_callback(sender)
    \/ \E sender \in Senders : use_suggested_name_callback(sender)

\* C30: a cancel at any step removes the session and changes no table; with
\* no session, no later input brings one back or writes the catalog, and a
\* start creates a session with none of the old fields.
C30_CancelDiscards ==
    [][/\ CancelStep
          => /\ upload_sessions' = NoSession
             /\ UNCHANGED <<content_items, users, user_purchases, vip_subscriptions>>
       /\ (~InSession /\ LaterInput)
          => /\ upload_sessions' = NoSession
             /\ UNCHANGED content_items
       /\ ~InSession => (upload_sessions' = NoSession \/ IsFreshSession(upload_sessions'))]_vars

\* the catalog as seeded, with no session, after a cancel was answered
C30_Witness ==
    /\ upload_sessions = NoSession
    /\ reply.kind = "upload_cancelled"
    /\ content_items = sample_content

\* the shapes upload_sessions[OWNER_ID] takes
SessionShapes ==
    [type : {"content", "vip_content"},
     step : {"waiting_for_file", "waiting_for_name", "waiting_for_price",
             "waiting_for_description"},
     name : {<<>>} \cup UploadNames,
     price : {NullPrice} \cup StarsTyped,
     description : {"None"},
     file_path : {"None", "photo_file_id", "document_file_id"},
     file_type : {"None", "Photo", "Document"}]

\* the owner starts a regular or a VIP upload
StartStep ==
    \/ owner_upload_content(OWNER_ID)
    \/ start_vip_upload_session(OWNER_ID)

\* C31: the owner has no session or one session, and a start while a session
\* is in progress puts a session at the file step with no name, price,
\* description or file in its place and inserts nothing.
C31_StartReplaces ==
    [][/\ upload_sessions' = NoSession \/ upload_sessions' \in SessionShapes
       /\ (InSession /\ StartStep)
          => /\ IsFreshSession(upload_sessions')
             /\ UNCHANGED content_items]_vars

\* a session as a start leaves it, after the owner had already talked to
\* the bot without one
C31_Witness ==
    /\ IsFreshSession(upload_sessions)
    /\ upload_sessions.type = "vip_content"
    /\ reply.kind = "upload_started"
    /\ OWNER_ID \in DOMAIN users

\* the text, stripped, is not the decimal form of a positive number
PriceToReject(text) ==
    LET typed == lstrip(rstrip(text.atoms))
    IN ~(Len(typed) = 1 /\ \E n \in StarsTyped \ {0} : ToString(n) = typed[1])

\* C35: at the price step, a text that is no integer or no positive one
\* leaves the session, with its step, name and file, and the catalog as
\* they were.
C35_BadPriceRejected ==
    [][\A text \in TypedTexts :
          (/\ upload_sessions.step = "waiting_for_price"
           /\ PriceToReject(text)
           /\ text_message(OWNER_ID, text))
          => UNCHANGED <<upload_sessions, content_items>>]_vars

\* a session still at the price step, with its name and file, after the
\* price 0 was refused
C35_Witness ==
    /\ upload_sessions.step = "waiting_for_price"
    /\ upload_sessions.name = <<"pic">>
    /\ upload_sessions.file_path = "photo_file_id"
    /\ upload_sessions.price = NullPrice
    /\ reply.kind = "price_not_positive"

\* an upload or administration event sent by the identity sender
EventOf(sender) ==
    \/ owner_upload_content(sender)
    \/ start_vip_upload_session(sender)
    \/ \E file \in FileMessages : file_message(sender, file)
    \/ \E text \in IdentityTexts : text_message(sender, text)
    \/ cancel_upload_callback(sender)
    \/ cancel_vip_upload_callback(sender)
    \/ skip_description_callback(sender)
    \/ skip_vip_description_callback(sender)
    \/ use_suggested_name_callback(sender)
    \/ \E name \in Names, price \in SettlePrices, file \in Files, d \in Descriptions :
          early_command(sender, owner_add_content(name, price, file, d))
    \/ \E name \in UploadNames :
          early_command(sender, owner_delete_content(name))
    \/ \E name \in Names, price \in Prices :
          late_command(sender, owner_edit_price(name, price))
    \/ \E name \in Names, d \in Descriptions :
          late_command(sender, owner_edit_description(name, d))
    \/ \E name \in Names, file \in Files :
          late_command(sender, owner_edit_file_path(name, file))
    \/ \E days \in Durations : late_command(sender, owner_set_vip_duration(days))

\* C33: an upload or administration event sent by anyone but the owner leaves
\* the catalog, the subscription duration and the upload session unchanged.
C33_OwnerOnly ==
    [][\A sender \in Senders \ {OWNER_ID} :
          EventOf(sender)
          => UNCHANGED <<content_items, vip_duration_days, upload_sessions>>]_vars

\* a session that holds its photo and name, a changed duration and a directly
\* added item, after another identity typed a text and was denied a command
C33_Witness ==
    /\ reply.kind = "access_denied"
    /\ \E u \in Users : u # OWNER_ID /\ u \in DOMAIN users
    /\ upload_sessions.step = "waiting_for_price"
    /\ upload_sessions.file_path = "photo_file_id"
    /\ vip_duration_days = 1
    /\ pic \in DOMAIN content_items

\* some Purchase row refers to the name
Purchased(name) == \E r \in user_purchases : r.content_name = name

\* C32: while a Purchase row refers to a name, no step changes the
\* content_type recorded under that name.
C32_PoolTagKept ==
    [][\A name \in DOMAIN content_items \cap DOMAIN content_items' :
          (Purchased(name) /\ Purchased(name)')
          => content_items'[name].content_type = content_items[name].content_type]_vars

\* a Purchase row of user u for the name
HasPurchase(u, name) ==
    \E r \in user_purchases : r.user_id = u /\ r.content_name = name

\* C34: a settlement whose delivery fails still leaves the Purchase row, a
\* request for owned content writes no table whether its delivery fails or
\* not, and a request for an owned item of the catalog is accepted every time.
C34_FailedDeliveryKeepsPurchase ==
    [][/\ \A p \in DOMAIN payments :
             (/\ content_payment_notification(p, FALSE)
              /\ ~ForeignKeyFails(payload_user_id(payments[p].payload),
                                  payload_content_name(payments[p].payload)))
             => /\ user_purchases \subseteq user_purchases'
                /\ HasPurchase(payload_user_id(payments[p].payload),
                               payload_content_name(payments[p].payload))'
       /\ \A u \in Users, name \in Names, sent \in BOOLEAN :
             access_callback(u, name, sent)
             => /\ UNCHANGED <<users, user_purchases, vip_subscriptions, content_items>>
                /\ (HasPurchase(u, name) /\ name \in DOMAIN content_items)
                   => reply'.kind = IF sent THEN "owned_content_sent"
                                    ELSE "delivery_issue"]_vars

\* owned content sent on request to a buyer whose settlement delivered
\* nothing
C34_Witness ==
    \E r \in user_purchases :
        /\ Count(delivered, <<r.user_id, r.content_name>>) = 0
        /\ r.content_name \in DOMAIN content_items
        /\ content_items[r.content_name].price_stars = r.price_paid
        /\ reply.kind = "owned_content_sent"

\* C36: no step adds a Purchase row for a name whose item is of content_type
\* vip at that step.
C36_NoPurchaseOfVipItem ==
    [][\A r \in user_purchases' \ user_purchases :
          r.content_name \in DOMAIN content_items
          => content_items[r.content_name].content_type # "vip"]_vars

\* C37: a subscription row that is flagged inactive has its expiry behind
\* it, also when a status check and a renewal of the same user run on two
\* worker threads.
C37_InactiveIsExpired ==
    \A u \in DOMAIN vip_subscriptions :
        vip_subscriptions[u].is_active = 0 => vip_subscriptions[u].expiry_date <= now

\* C38: every invoice that purchase_item issued for an item name and a user
\* id carries a payload from which the settlement decodes the content kind,
\* the same item name and the same user id.
C38_PayloadRoundTrip ==
    \A inv \in invoices : \A u \in Users, name \in DOMAIN content_items :
        inv.payload = content_payload(name, u)
        => /\ IsContentPayload(inv.payload)
           /\ ~PayloadRaises(inv.payload)
           /\ payload_content_name(inv.payload) = name
           /\ payload_user_id(inv.payload) = u

\* the sum of price_paid over a set of Purchase rows
RECURSIVE PaidInRows(_)
PaidInRows(rows) ==
    IF rows = {} THEN 0
    ELSE LET r == CHOOSE x \in rows : TRUE
         IN  r.price_paid + PaidInRows(rows \ {r})

\* C39: a user's total_stars_spent never exceeds the price paid over the
\* user's Purchase rows plus the amounts of the subscription payments that
\* granted a period: a notification that creates no Purchase row adds nothing
\* to it.
C39_SpendWithinLedger ==
    \A u \in DOMAIN users :
        users[u].total_stars_spent
          <= PaidInRows({r \in user_purchases : r.user_id = u})
             + Len(renewals[u]) * vip_price_stars

====
